---------------------------- MODULE Spec2Model ----------------------------
(***************************************************************************)
(* Model of the Barnes-Hut force engine of native/rust-physics/src/lib.rs: *)
(* the bounding box, the octree (insert, calculate_force) and the          *)
(* PhysicsEngine operations set_nodes, set_edges, set_params, tick and     *)
(* get_nodes.                                                              *)
(*                                                                         *)
(* f64 arithmetic is modelled as binary floating point with a MantBits-bit *)
(* mantissa, round-to-nearest-even after every operation, NaN and the two  *)
(* infinities.  A number is [cls |-> "num", m |-> mantissa, e |-> exponent]*)
(* standing for m * 2^e, with m = 0 /\ e = 0 or 2^(MantBits-1) <= |m| <    *)
(* 2^MantBits, so that equal numbers are equal records.                    *)
(***************************************************************************)
EXTENDS Integers, Sequences, FiniteSets, TLC

\* Width of the modelled mantissa (f64 has 53 bits; the model keeps fewer).
MantBits == 12

-----------------------------------------------------------------------------
(* Floating point                                                          *)

NaN  == [cls |-> "nan",  m |-> 0, e |-> 0]
PInf == [cls |-> "pinf", m |-> 0, e |-> 0]
NInf == [cls |-> "ninf", m |-> 0, e |-> 0]
Zero == [cls |-> "num",  m |-> 0, e |-> 0]

IsNaN(a) == a.cls = "nan"
IsInf(a) == a.cls \in {"pinf", "ninf"}

Abs(n) == IF n < 0 THEN -n ELSE n
Sgn(n) == IF n < 0 THEN -1 ELSE IF n > 0 THEN 1 ELSE 0

\* Sign of a float: -1, 0, 1 (0 for NaN as well).
FSign(a) ==
  CASE a.cls = "num"  -> Sgn(a.m)
    [] a.cls = "pinf" -> 1
    [] a.cls = "ninf" -> -1
    [] OTHER          -> 0

SignedInf(s) == IF s < 0 THEN NInf ELSE PInf

\* Number of bits of n, 0 <= n < 2^31: the k in lo..hi with 2^(k-1) <= n < 2^k.
RECURSIVE BitLenIn(_, _, _)
BitLenIn(n, lo, hi) ==
  IF lo = hi THEN lo
  ELSE LET mid == (lo + hi) \div 2
       IN IF n < 2^mid THEN BitLenIn(n, lo, mid) ELSE BitLenIn(n, mid + 1, hi)
BitLen(n) == IF n < 2^30 THEN BitLenIn(n, 0, 30) ELSE 31

\* Round s * a * 2^e (a >= 0; sticky: a nonzero part below 2^e was cut off)
\* to MantBits bits, to nearest, ties to even.
RoundUp(s, q1, k, e) ==
  IF q1 = 2^MantBits
  THEN [cls |-> "num", m |-> s * 2^(MantBits - 1), e |-> e + k + 1]
  ELSE [cls |-> "num", m |-> s * q1, e |-> e + k]

\* q the kept bits, r the k bits cut off below them.
RoundCut(s, q, r, k, e, sticky) ==
  RoundUp(s,
          IF r > 2^(k - 1) \/ (r = 2^(k - 1) /\ (sticky \/ q % 2 = 1)) THEN q + 1 ELSE q,
          k, e)

RoundBits(s, a, e, sticky, bits) ==
  IF bits <= MantBits
  THEN [cls |-> "num", m |-> s * a * 2^(MantBits - bits), e |-> e - (MantBits - bits)]
  ELSE RoundCut(s, a \div 2^(bits - MantBits), a % 2^(bits - MantBits),
                bits - MantBits, e, sticky)

Round(s, a, e, sticky) == IF a = 0 THEN Zero ELSE RoundBits(s, a, e, sticky, BitLen(a))

FromInt(n) == Round(Sgn(n), Abs(n), 0, FALSE)

FNeg(a) ==
  CASE a.cls = "num"  -> [a EXCEPT !.m = -a.m]
    [] a.cls = "pinf" -> NInf
    [] a.cls = "ninf" -> PInf
    [] OTHER          -> NaN

FAdd(a, b) ==
  IF IsNaN(a) \/ IsNaN(b) THEN NaN
  ELSE IF IsInf(a) /\ IsInf(b) THEN (IF a = b THEN a ELSE NaN)
  ELSE IF IsInf(a) THEN a
  ELSE IF IsInf(b) THEN b
  ELSE IF a.m = 0 THEN b
  ELSE IF b.m = 0 THEN a
  ELSE
    LET hi == IF a.e >= b.e THEN a ELSE b
        lo == IF a.e >= b.e THEN b ELSE a
        d  == hi.e - lo.e
    IN IF d > MantBits + 1 THEN hi
       ELSE LET sum == hi.m * 2^d + lo.m
            IN Round(Sgn(sum), Abs(sum), lo.e, FALSE)

FSub(a, b) == FAdd(a, FNeg(b))

FMul(a, b) ==
  IF IsNaN(a) \/ IsNaN(b) THEN NaN
  ELSE IF IsInf(a) \/ IsInf(b)
       THEN (IF FSign(a) * FSign(b) = 0 THEN NaN ELSE SignedInf(FSign(a) * FSign(b)))
  ELSE Round(Sgn(a.m) * Sgn(b.m), Abs(a.m) * Abs(b.m), a.e + b.e, FALSE)

FDiv(a, b) ==
  IF IsNaN(a) \/ IsNaN(b) THEN NaN
  ELSE IF IsInf(a) THEN (IF IsInf(b) THEN NaN
                         ELSE SignedInf(FSign(a) * (IF b.m < 0 THEN -1 ELSE 1)))
  ELSE IF IsInf(b) THEN Zero
  ELSE IF b.m = 0 THEN (IF a.m = 0 THEN NaN ELSE SignedInf(Sgn(a.m)))
  ELSE IF a.m = 0 THEN Zero
  ELSE
    LET n == Abs(a.m) * 2^(MantBits + 1)
        q == n \div Abs(b.m)
        r == n % Abs(b.m)
    IN Round(Sgn(a.m) * Sgn(b.m), q, a.e - b.e - (MantBits + 1), r # 0)

\* Largest r with r * r <= n, found bit by bit from bit b down.
RECURSIVE ISqrtFrom(_, _, _)
ISqrtFrom(n, r, b) ==
  IF b < 0 THEN r
  ELSE LET c == r + 2^b
       IN ISqrtFrom(n, IF c <= n \div c THEN c ELSE r, b - 1)

FSqrt(a) ==
  IF IsNaN(a) \/ a.cls = "ninf" THEN NaN
  ELSE IF a.cls = "pinf" THEN PInf
  ELSE IF a.m < 0 THEN NaN
  ELSE IF a.m = 0 THEN Zero
  ELSE
    LET s    == IF (a.e - (MantBits + 2)) % 2 = 0 THEN MantBits + 2 ELSE MantBits + 3
        n    == a.m * 2^s
        root == ISqrtFrom(n, 0, MantBits + 2)
    IN Round(1, root, (a.e - s) \div 2, root * root # n)

\* a < b, a <= b, a == b as f64 compares: false when either side is NaN.
FLt(a, b) ==
  /\ ~IsNaN(a) /\ ~IsNaN(b)
  /\ a # b
  /\ CASE a.cls = "ninf" -> TRUE
       [] b.cls = "pinf" -> TRUE
       [] a.cls = "pinf" -> FALSE
       [] b.cls = "ninf" -> FALSE
       [] OTHER ->
            IF Sgn(a.m) # Sgn(b.m) THEN a.m < b.m
            ELSE IF a.m > 0 THEN a.e < b.e \/ (a.e = b.e /\ a.m < b.m)
            ELSE a.e > b.e \/ (a.e = b.e /\ a.m < b.m)
FEq(a, b) == ~IsNaN(a) /\ ~IsNaN(b) /\ a = b
FLe(a, b) == FLt(a, b) \/ FEq(a, b)
FGe(a, b) == FLe(b, a)

\* f64::min and f64::max: a NaN operand is ignored.
FMin(a, b) == IF IsNaN(a) THEN b ELSE IF IsNaN(b) THEN a ELSE IF FLt(b, a) THEN b ELSE a
FMax(a, b) == IF IsNaN(a) THEN b ELSE IF IsNaN(b) THEN a ELSE IF FLt(a, b) THEN b ELSE a

\* The decimal literal n/d (0.8, 0.01, 0.1, 0.5) read as the nearest float.
Lit(n, d) == FDiv(FromInt(n), FromInt(d))

IsFinite(a) == a.cls = "num"

-----------------------------------------------------------------------------
(* Bounds of the model                                                     *)

\* Longest node sequence handed to setNodes.
MaxNodes == 3
\* Longest edge sequence handed to setEdges.
MaxEdges == 1
\* Number of engine calls in one run.
MaxCalls == 4
\* Deepest octree level the model lets insert recurse to; beyond it the
\* call stack counts as exhausted and the tick does not return.
MaxDepth == 6

-----------------------------------------------------------------------------
(* BoundingBox                                                             *)

\* BoundingBox::contains: inclusive on all six planes.
Contains(b, x, y, z) ==
  /\ FGe(x, b.min_x) /\ FLe(x, b.max_x)
  /\ FGe(y, b.min_y) /\ FLe(y, b.max_y)
  /\ FGe(z, b.min_z) /\ FLe(z, b.max_z)

\* BoundingBox::width
Width(b) == FSub(b.max_x, b.min_x)

Box(x0, y0, z0, x1, y1, z1) ==
  [min_x |-> x0, min_y |-> y0, min_z |-> z0, max_x |-> x1, max_y |-> y1, max_z |-> z1]

\* BoundingBox::subdivide: the 8 octants in the order of the source array
\* (index 1 here is index 0 there).
Octants(b, mid_x, mid_y, mid_z) ==
  << Box(b.min_x, b.min_y, b.min_z, mid_x,   mid_y,   mid_z),
     Box(mid_x,   b.min_y, b.min_z, b.max_x, mid_y,   mid_z),
     Box(b.min_x, mid_y,   b.min_z, mid_x,   b.max_y, mid_z),
     Box(mid_x,   mid_y,   b.min_z, b.max_x, b.max_y, mid_z),
     Box(b.min_x, b.min_y, mid_z,   mid_x,   mid_y,   b.max_z),
     Box(mid_x,   b.min_y, mid_z,   b.max_x, mid_y,   b.max_z),
     Box(b.min_x, mid_y,   mid_z,   mid_x,   b.max_y, b.max_z),
     Box(mid_x,   mid_y,   mid_z,   b.max_x, b.max_y, b.max_z) >>

Subdivide(b) ==
  Octants(b, FDiv(FAdd(b.min_x, b.max_x), FromInt(2)),
             FDiv(FAdd(b.min_y, b.max_y), FromInt(2)),
             FDiv(FAdd(b.min_z, b.max_z), FromInt(2)))

-----------------------------------------------------------------------------
(* QuadTreeNode.  A tree is a function from paths to tree nodes: the root  *)
(* is at << >>, the k-th child of the node at p is at Append(p, k), and    *)
(* the field children tells whether the node owns its 8 children.          *)
(* node_ids holds indices into the node sequence, counted from 1.          *)

\* The value standing for "the call did not return": no tree at all.
NoTree == << >>
IsTree(t) == DOMAIN t # {}

\* QuadTreeNode::new
NewQuadTreeNode(b) ==
  [bounds         |-> b,
   center_of_mass |-> <<Zero, Zero, Zero>>,
   total_mass     |-> Zero,
   children       |-> FALSE,
   node_ids       |-> << >>]

ChildPaths(p) == {Append(p, k) : k \in 1..8}

\* The least element of a set of child indices; 0 if there is none.
FirstOf(hits) == IF hits = {} THEN 0 ELSE CHOOSE k \in hits : \A j \in hits : k <= j

\* The first child, in array order, whose box contains the point; 0 if none.
FirstChild(t, p, node) ==
  FirstOf({k \in 1..8 : Contains(t[Append(p, k)].bounds, node.x, node.y, node.z)})

RECURSIVE Insert(_, _, _, _)

\* child.insert(node_id, node) on the k-th child; nothing when no child matched.
InsertAt(t, p, k, node_id, node) ==
  IF k = 0 THEN t ELSE Insert(t, Append(p, k), node_id, node)

\* for child in children.iter_mut() { if child.bounds.contains(..) { child.insert(..); break; } }
InsertIntoChild(t, p, node_id, node) ==
  IF ~IsTree(t) THEN t ELSE InsertAt(t, p, FirstChild(t, p, node), node_id, node)

\* A subdivision that feeds every former occupant to the children, with the
\* only node data insert has at hand: the arriving node's.
RECURSIVE ReinsertArriving(_, _, _, _)
ReinsertArriving(t, p, existing_ids, node) ==
  IF existing_ids = << >> \/ ~IsTree(t) THEN t
  ELSE ReinsertArriving(InsertIntoChild(t, p, Head(existing_ids), node),
                        p, Tail(existing_ids), node)

\* for &id in &existing_ids { /* Would need node data here */ }: an empty loop.
ReinsertExisting(t, p, existing_ids, node) == t

\* The center-of-mass update of insert, one coordinate.
UpdateCenter(c, total_mass, x, mass, new_mass) ==
  FDiv(FAdd(FMul(c, total_mass), FMul(x, mass)), new_mass)

\* The first step of insert: center of mass and total mass take the node in.
Accumulate(self, node, new_mass) ==
  [self EXCEPT
     !.center_of_mass =
        << UpdateCenter(self.center_of_mass[1], self.total_mass, node.x, node.mass, new_mass),
           UpdateCenter(self.center_of_mass[2], self.total_mass, node.y, node.mass, new_mass),
           UpdateCenter(self.center_of_mass[3], self.total_mass, node.z, node.mass, new_mass) >>,
     !.total_mass = new_mass]

\* let children = Box::new([QuadTreeNode::new(subdivisions[0]), ..]);
\* let existing_ids = std::mem::take(&mut self.node_ids); self.children = Some(children);
MakeChildren(t, p, subdivisions) ==
  [q \in DOMAIN t \cup ChildPaths(p) |->
     IF q = p THEN [t[p] EXCEPT !.children = TRUE, !.node_ids = << >>]
     ELSE IF q \in DOMAIN t THEN t[q]
     ELSE NewQuadTreeNode(subdivisions[q[Len(q)]])]

\* self.node_ids.push(node_id), once the child's insert has returned.
PushId(t, p, node_id) ==
  IF ~IsTree(t) THEN t ELSE [t EXCEPT ![p].node_ids = Append(@, node_id)]

\* QuadTreeNode::insert, on the tree node at path p of t.
Insert(t, p, node_id, node) ==
  IF ~IsTree(t) THEN t
  ELSE IF Len(p) > MaxDepth THEN NoTree
  ELSE IF ~Contains(t[p].bounds, node.x, node.y, node.z) THEN t
  ELSE IF ~t[p].children /\ t[p].node_ids = << >>
  THEN [t EXCEPT ![p] = [Accumulate(@, node, FAdd(@.total_mass, node.mass))
                           EXCEPT !.node_ids = Append(@, node_id)]]
  ELSE IF ~t[p].children
  THEN PushId(
         InsertIntoChild(
           ReinsertExisting(
             MakeChildren([t EXCEPT ![p] = Accumulate(@, node, FAdd(@.total_mass, node.mass))],
                          p, Subdivide(t[p].bounds)),
             p, t[p].node_ids, node),
           p, node_id, node),
         p, node_id)
  ELSE PushId(
         InsertIntoChild([t EXCEPT ![p] = Accumulate(@, node, FAdd(@.total_mass, node.mass))],
                         p, node_id, node),
         p, node_id)

VAdd(u, v) == << FAdd(u[1], v[1]), FAdd(u[2], v[2]), FAdd(u[3], v[3]) >>
VZero == << Zero, Zero, Zero >>

\* ((dx / dist) * force, (dy / dist) * force, (dz / dist) * force)
Along(dx, dy, dz, dist, force) ==
  << FMul(FDiv(dx, dist), force), FMul(FDiv(dy, dist), force), FMul(FDiv(dz, dist), force) >>

RECURSIVE CalculateForce(_, _, _, _)

\* calculate_force from the Barnes-Hut test on: the node as one body, or
\* the sum over its children.
ForceAtDist(t, p, node, theta, dx, dy, dz, dist_sq, dist) ==
  IF ~t[p].children \/ FLt(FDiv(Width(t[p].bounds), dist), theta)
  THEN Along(dx, dy, dz, dist, FDiv(FMul(node.mass, t[p].total_mass), dist_sq))
  ELSE VAdd(VAdd(VAdd(VAdd(VAdd(VAdd(VAdd(VAdd(VZero,
         CalculateForce(t, Append(p, 1), node, theta)),
         CalculateForce(t, Append(p, 2), node, theta)),
         CalculateForce(t, Append(p, 3), node, theta)),
         CalculateForce(t, Append(p, 4), node, theta)),
         CalculateForce(t, Append(p, 5), node, theta)),
         CalculateForce(t, Append(p, 6), node, theta)),
         CalculateForce(t, Append(p, 7), node, theta)),
         CalculateForce(t, Append(p, 8), node, theta))

\* let dist = dist_sq.sqrt();
ForceAtDistSq(t, p, node, theta, dx, dy, dz, dist_sq) ==
  ForceAtDist(t, p, node, theta, dx, dy, dz, dist_sq, FSqrt(dist_sq))

\* let dist_sq = dx * dx + dy * dy + dz * dz + 1.0;
ForceAtOffset(t, p, node, theta, dx, dy, dz) ==
  ForceAtDistSq(t, p, node, theta, dx, dy, dz,
                FAdd(FAdd(FAdd(FMul(dx, dx), FMul(dy, dy)), FMul(dz, dz)), FromInt(1)))

\* QuadTreeNode::calculate_force, on the tree node at path p of t.
CalculateForce(t, p, node, theta) ==
  IF FEq(t[p].total_mass, Zero) THEN VZero
  ELSE ForceAtOffset(t, p, node, theta,
                     FSub(t[p].center_of_mass[1], node.x),
                     FSub(t[p].center_of_mass[2], node.y),
                     FSub(t[p].center_of_mass[3], node.z))

-----------------------------------------------------------------------------
(* PhysicsEngine                                                           *)

VARIABLES
  nodes,                 \* Vec<Node>
  edges,                 \* Vec<Edge>
  node_map,              \* HashMap<String, usize>, indices counted from 1
  repulsion_strength,
  attraction_strength,
  damping,
  theta,
  lastOp,                \* the operation called last
  result,                \* "ok", "err" (Err returned) or "trap" (no return)
  calls,                 \* number of calls so far
  pre,                   \* tick: self.nodes when the tick began
  lastDt,                \* tick: delta_time
  tree,                  \* tick: the octree after the build
  depths,                \* tick: depth of the octree after 0, 1, .. inserts
  repulse,               \* tick: what calculate_force returned per node
  forces                 \* tick: the force accumulators before integration

engine == <<nodes, edges, node_map, repulsion_strength, attraction_strength, damping, theta>>
locals == <<pre, lastDt, tree, depths, repulse, forces>>
vars   == <<nodes, edges, node_map, repulsion_strength, attraction_strength, damping,
            theta, lastOp, result, calls, pre, lastDt, tree, depths, repulse, forces>>

NodeFields == {"id", "x", "y", "z", "vx", "vy", "vz", "mass"}
EdgeFields == {"source", "target", "weight"}

\* serde_wasm_bindgen::from_value::<Vec<T>>: every element must carry every
\* field of T; the result is the whole vector or an error.
FromValue(js, fields) ==
  IF \A i \in 1..Len(js) : fields \subseteq DOMAIN js[i]
  THEN [ok |-> TRUE,  val |-> [i \in 1..Len(js) |-> [f \in fields |-> js[i][f]]]]
  ELSE [ok |-> FALSE, val |-> << >>]

\* HashMap::insert
MapInsert(map, key, idx) ==
  [k \in DOMAIN map \cup {key} |-> IF k = key THEN idx ELSE map[k]]

\* self.node_map.clear(); for (idx, node) in nodes.iter().enumerate() { insert }
RECURSIVE IndexNodes(_, _, _)
IndexNodes(map, ns, idx) ==
  IF idx > Len(ns) THEN map
  ELSE IndexNodes(MapInsert(map, ns[idx].id, idx), ns, idx + 1)

\* The bounding box of tick: min/max fold from +-infinity, then the padding.
RECURSIVE FoldMin(_, _, _, _)
FoldMin(ns, f, i, acc) ==
  IF i > Len(ns) THEN acc ELSE FoldMin(ns, f, i + 1, FMin(acc, ns[i][f]))
RECURSIVE FoldMax(_, _, _, _)
FoldMax(ns, f, i, acc) ==
  IF i > Len(ns) THEN acc ELSE FoldMax(ns, f, i + 1, FMax(acc, ns[i][f]))

Padding == 100

ShrunkBounds(ns) ==
  LET padding == FromInt(Padding)
  IN Box(FSub(FoldMin(ns, "x", 1, PInf), padding),
         FSub(FoldMin(ns, "y", 1, PInf), padding),
         FSub(FoldMin(ns, "z", 1, PInf), padding),
         FSub(FoldMax(ns, "x", 1, NInf), padding),
         FSub(FoldMax(ns, "y", 1, NInf), padding),
         FSub(FoldMax(ns, "z", 1, NInf), padding))

TickBounds(ns) ==
  LET padding == FromInt(Padding)
  IN Box(FSub(FoldMin(ns, "x", 1, PInf), padding),
         FSub(FoldMin(ns, "y", 1, PInf), padding),
         FSub(FoldMin(ns, "z", 1, PInf), padding),
         FAdd(FoldMax(ns, "x", 1, NInf), padding),
         FAdd(FoldMax(ns, "y", 1, NInf), padding),
         FAdd(FoldMax(ns, "z", 1, NInf), padding))

\* The octrees of tick: the empty one, then the one after each insert
\* (for (idx, node) in self.nodes.iter().enumerate() { tree.insert(idx, node) }).
InsertNext(before, i, node) == Append(before, Insert(before[i], << >>, i, node))

RECURSIVE Trees(_, _)
Trees(ns, i) ==
  IF i = 0 THEN << (<< >> :> NewQuadTreeNode(TickBounds(ns))) >>
  ELSE InsertNext(Trees(ns, i - 1), i, ns[i])

RECURSIVE MaxOf(_)
MaxOf(S) == IF S = {} THEN 0
            ELSE LET x == CHOOSE y \in S : TRUE
                     m == MaxOf(S \ {x})
                 IN IF x > m THEN x ELSE m
Depth(t) == MaxOf({Len(p) : p \in DOMAIN t})

\* The repulsion pass of tick: the octree query of every node.
Repulsion(t, ns, th) == [i \in 1..Len(ns) |-> CalculateForce(t, << >>, ns[i], th)]

VScale(v, c) == << FMul(v[1], c), FMul(v[2], c), FMul(v[3], c) >>
VSub(u, v) == << FSub(u[1], v[1]), FSub(u[2], v[2]), FSub(u[3], v[3]) >>

MinEdgeDist == Lit(1, 10)

\* forces[source_idx] += f; forces[target_idx] -= f
ApplyEdgeForce(fs, source_idx, target_idx, f) ==
  [[fs EXCEPT ![source_idx] = VAdd(@, f)] EXCEPT ![target_idx] = VSub(@, f)]

\* let force = self.attraction_strength * dist * edge.weight;
EdgeForceAtDist(dx, dy, dz, dist, att, weight) ==
  Along(dx, dy, dz, dist, FMul(FMul(att, dist), weight))

\* let dist = (dx * dx + dy * dy + dz * dz).sqrt().max(0.1);
EdgeForceAtOffset(dx, dy, dz, att, weight) ==
  EdgeForceAtDist(dx, dy, dz,
                  FMax(FSqrt(FAdd(FAdd(FMul(dx, dx), FMul(dy, dy)), FMul(dz, dz))), MinEdgeDist),
                  att, weight)

\* The Hookean pull of one edge on its source.
EdgeForce(source, target, att, weight) ==
  EdgeForceAtOffset(FSub(target.x, source.x), FSub(target.y, source.y),
                    FSub(target.z, source.z), att, weight)

\* An attraction loop that takes index 0 for an id it cannot resolve.
AttractEdgeAlways(fs, ns, map, att, edge) ==
  ApplyEdgeForce(fs,
    IF edge.source \in DOMAIN map THEN map[edge.source] ELSE 1,
    IF edge.target \in DOMAIN map THEN map[edge.target] ELSE 1,
    EdgeForce(ns[IF edge.source \in DOMAIN map THEN map[edge.source] ELSE 1],
              ns[IF edge.target \in DOMAIN map THEN map[edge.target] ELSE 1],
              att, edge.weight))

\* The body of the attraction loop of tick for one edge.
AttractEdge(fs, ns, map, att, edge) ==
  IF edge.source \in DOMAIN map /\ edge.target \in DOMAIN map
  THEN ApplyEdgeForce(fs, map[edge.source], map[edge.target],
                      EdgeForce(ns[map[edge.source]], ns[map[edge.target]], att, edge.weight))
  ELSE fs

\* The attraction pass of tick: every edge in order.
RECURSIVE Attraction(_, _, _, _, _, _)
Attraction(fs, ns, es, map, att, k) ==
  IF k > Len(es) THEN fs
  ELSE Attraction(AttractEdge(fs, ns, map, att, es[k]), ns, es, map, att, k + 1)

\* node.x += node.vx * delta_time, and so for y and z, with the new velocity.
Move(node, vx, vy, vz, dt) ==
  [node EXCEPT !.vx = vx, !.vy = vy, !.vz = vz,
               !.x = FAdd(node.x, FMul(vx, dt)),
               !.y = FAdd(node.y, FMul(vy, dt)),
               !.z = FAdd(node.z, FMul(vz, dt))]

\* An integration that leaves a node alone when no time passes.
IntegrateSkipIdle(node, f, damp, dt) ==
  IF dt = Zero THEN node
  ELSE Move(node, FMul(FAdd(node.vx, FMul(f[1], dt)), damp),
                  FMul(FAdd(node.vy, FMul(f[2], dt)), damp),
                  FMul(FAdd(node.vz, FMul(f[3], dt)), damp), dt)

\* The integration loop of tick for one node.
Integrate(node, f, damp, dt) ==
  Move(node, FMul(FAdd(node.vx, FMul(f[1], dt)), damp),
             FMul(FAdd(node.vy, FMul(f[2], dt)), damp),
             FMul(FAdd(node.vz, FMul(f[3], dt)), damp), dt)

\* PhysicsEngine::tick as a function of the engine state and delta_time:
\* the new node sequence and the values of the locals it went through.
TickIntegrate(ns, damp, dt, built, raw, fs) ==
  [nodes   |-> [i \in 1..Len(ns) |-> Integrate(ns[i], fs[i], damp, dt)],
   result  |-> "ok",
   tree    |-> built[Len(ns) + 1],
   depths  |-> [i \in 1..(Len(ns) + 1) |-> Depth(built[i])],
   repulse |-> raw,
   forces  |-> fs]

TickForces(ns, es, map, rep, att, damp, dt, built, raw) ==
  TickIntegrate(ns, damp, dt, built, raw,
                Attraction([i \in 1..Len(ns) |-> VScale(raw[i], rep)], ns, es, map, att, 1))

TickBuilt(ns, es, map, rep, att, damp, th, dt, built) ==
  IF ~IsTree(built[Len(ns) + 1])
  THEN [nodes |-> ns, result |-> "trap", tree |-> NoTree, depths |-> << >>,
        repulse |-> << >>, forces |-> << >>]
  ELSE TickForces(ns, es, map, rep, att, damp, dt, built,
                  Repulsion(built[Len(ns) + 1], ns, th))

TickOut(ns, es, map, rep, att, damp, th, dt) ==
  IF Len(ns) = 0
  THEN [nodes |-> ns, result |-> "ok", tree |-> NoTree, depths |-> << >>,
        repulse |-> << >>, forces |-> << >>]
  ELSE TickBuilt(ns, es, map, rep, att, damp, th, dt, Trees(ns, Len(ns)))

-----------------------------------------------------------------------------
(* Inputs                                                                  *)

Ids == <<"a", "b">>
NodeId(i) == Ids[((i - 1) % Len(Ids)) + 1]

\* Where the i-th node of a layout sits: all on one point, in pairs of
\* coincident points along x, or spread over the three axes.
Layouts == {"stack", "pairs", "space"}
Position(layout, i) ==
  CASE layout = "stack" -> << 0, 0, 0 >>
    [] layout = "pairs" -> << 10 * (i \div 2), 0, 0 >>
    [] OTHER            -> << 10 * (i % 2), 10 * ((i \div 2) % 2), -10 * (i % 3) >>

\* A JS node object; one without the mass field when broken.
JsNode(layout, i, mass, broken) ==
  LET p == Position(layout, i)
      full == [id |-> NodeId(i), x |-> FromInt(p[1]), y |-> FromInt(p[2]), z |-> FromInt(p[3]),
               vx |-> Zero, vy |-> Zero, vz |-> Zero, mass |-> FromInt(mass)]
  IN IF broken THEN [f \in NodeFields \ {"mass"} |-> full[f]] ELSE full

\* The node arrays handed to setNodes: n nodes of a layout, all of mass 1
\* but the one at index zeroAt (mass 0), the one at brokenAt malformed.
JsNodes(n, layout, zeroAt, brokenAt) ==
  [i \in 1..n |-> JsNode(layout, i, IF i = zeroAt THEN 0 ELSE 1, i = brokenAt)]

JsNodeLists ==
  {JsNodes(n, layout, 0, 0) : n \in 0..MaxNodes, layout \in Layouts}
    \cup {JsNodes(n, "pairs", zeroAt, 0) : n \in 1..MaxNodes, zeroAt \in 1..2}
    \cup {JsNodes(n, "pairs", 0, n) : n \in 1..MaxNodes}

EdgeEnds == {<<"a", "b">>, <<"a", "c">>, <<"c", "a">>}
JsEdge(ends, broken) ==
  LET full == [source |-> ends[1], target |-> ends[2], weight |-> FromInt(1)]
  IN IF broken THEN [f \in EdgeFields \ {"weight"} |-> full[f]] ELSE full

RECURSIVE SeqsUpTo(_, _)
SeqsUpTo(S, n) ==
  IF n = 0 THEN {<< >>}
  ELSE LET shorter == SeqsUpTo(S, n - 1)
       IN shorter \cup {Append(q, x) : q \in shorter, x \in S}

JsEdgeLists == SeqsUpTo({JsEdge(ends, b) : ends \in EdgeEnds, b \in {FALSE}}, MaxEdges)
                 \cup {<<JsEdge(<<"a", "b">>, TRUE)>>}

Dampings == {FromInt(1)}
Thetas   == {Zero, Lit(1, 2), FromInt(64)}
DeltaTimes == {Zero, FromInt(1)}

-----------------------------------------------------------------------------
(* Operations                                                              *)

\* PhysicsEngine::new
Init ==
  /\ nodes = << >>
  /\ edges = << >>
  /\ node_map = << >>
  /\ repulsion_strength = FromInt(1000)
  /\ attraction_strength = Lit(1, 100)
  /\ damping = Lit(8, 10)
  /\ theta = Lit(5, 10)
  /\ lastOp = "new"
  /\ result = "ok"
  /\ calls = 0
  /\ pre = << >> /\ lastDt = Zero /\ tree = NoTree
  /\ depths = << >> /\ repulse = << >> /\ forces = << >>

NoTick ==
  /\ pre' = << >> /\ lastDt' = Zero /\ tree' = NoTree
  /\ depths' = << >> /\ repulse' = << >> /\ forces' = << >>

\* set_nodes that clears the map before it parses its argument.
SetNodesClearFirst(nodes_js) ==
  /\ calls < MaxCalls
  /\ calls' = calls + 1
  /\ lastOp' = "setNodes"
  /\ NoTick
  /\ LET parsed == FromValue(nodes_js, NodeFields)
     IN IF ~parsed.ok
        THEN /\ result' = "err"
             /\ node_map' = << >>
             /\ UNCHANGED <<nodes, edges, repulsion_strength, attraction_strength, damping, theta>>
        ELSE /\ result' = "ok"
             /\ node_map' = IndexNodes(<< >>, parsed.val, 1)
             /\ nodes' = parsed.val
             /\ UNCHANGED <<edges, repulsion_strength, attraction_strength, damping, theta>>

\* set_nodes that inserts into the map without clearing it.
SetNodesKeepMap(nodes_js) ==
  /\ calls < MaxCalls
  /\ calls' = calls + 1
  /\ lastOp' = "setNodes"
  /\ NoTick
  /\ LET parsed == FromValue(nodes_js, NodeFields)
     IN IF ~parsed.ok
        THEN /\ result' = "err"
             /\ UNCHANGED engine
        ELSE /\ result' = "ok"
             /\ node_map' = IndexNodes(node_map, parsed.val, 1)
             /\ nodes' = parsed.val
             /\ UNCHANGED <<edges, repulsion_strength, attraction_strength, damping, theta>>

\* PhysicsEngine::set_nodes
SetNodes(nodes_js) ==
  /\ calls < MaxCalls
  /\ calls' = calls + 1
  /\ lastOp' = "setNodes"
  /\ NoTick
  /\ LET parsed == FromValue(nodes_js, NodeFields)
     IN IF ~parsed.ok
        THEN /\ result' = "err"
             /\ UNCHANGED engine
        ELSE /\ result' = "ok"
             /\ node_map' = IndexNodes(<< >>, parsed.val, 1)
             /\ nodes' = parsed.val
             /\ UNCHANGED <<edges, repulsion_strength, attraction_strength, damping, theta>>

\* PhysicsEngine::set_edges
SetEdges(edges_js) ==
  /\ calls < MaxCalls
  /\ calls' = calls + 1
  /\ lastOp' = "setEdges"
  /\ NoTick
  /\ LET parsed == FromValue(edges_js, EdgeFields)
     IN IF ~parsed.ok
        THEN /\ result' = "err"
             /\ UNCHANGED engine
        ELSE /\ result' = "ok"
             /\ edges' = parsed.val
             /\ UNCHANGED <<nodes, node_map, repulsion_strength, attraction_strength, damping, theta>>

\* PhysicsEngine::set_params
SetParams(repulsion, attraction, damp, th) ==
  /\ calls < MaxCalls
  /\ calls' = calls + 1
  /\ lastOp' = "setParams"
  /\ result' = "ok"
  /\ NoTick
  /\ repulsion_strength' = repulsion
  /\ attraction_strength' = attraction
  /\ damping' = damp
  /\ theta' = th
  /\ UNCHANGED <<nodes, edges, node_map>>

\* PhysicsEngine::tick
Tick(delta_time) ==
  /\ calls < MaxCalls
  /\ calls' = calls + 1
  /\ lastOp' = "tick"
  /\ \E out \in {TickOut(nodes, edges, node_map, repulsion_strength,
                         attraction_strength, damping, theta, delta_time)} :
        /\ nodes' = out.nodes
        /\ result' = out.result
        /\ tree' = out.tree
        /\ depths' = out.depths
        /\ repulse' = out.repulse
        /\ forces' = out.forces
  /\ pre' = nodes
  /\ lastDt' = delta_time
  /\ UNCHANGED <<edges, node_map, repulsion_strength, attraction_strength, damping, theta>>

\* PhysicsEngine::get_nodes
GetNodes ==
  /\ calls < MaxCalls
  /\ calls' = calls + 1
  /\ lastOp' = "getNodes"
  /\ result' = "ok"
  /\ NoTick
  /\ UNCHANGED engine

Next ==
  \/ \E nodes_js \in JsNodeLists : SetNodes(nodes_js)
  \/ \E edges_js \in JsEdgeLists : SetEdges(edges_js)
  \/ \E damp \in Dampings, th \in Thetas :
       SetParams(FromInt(1000), Lit(1, 100), damp, th)
  \/ \E delta_time \in DeltaTimes : Tick(delta_time)
  \/ GetNodes

Spec == Init /\ [][Next]_vars

-----------------------------------------------------------------------------
(* Properties                                                              *)

Ticked == lastOp = "tick" /\ result = "ok" /\ IsTree(tree)

FAbs(a) == IF FSign(a) < 0 THEN FNeg(a) ELSE a
\* Equal up to a relative error of 2^-6.
FClose(a, b) ==
  /\ IsFinite(a) /\ IsFinite(b)
  /\ FLe(FMul(FAbs(FSub(a, b)), FromInt(64)), FAdd(FAbs(a), FAbs(b)))
VClose(u, v) == FClose(u[1], v[1]) /\ FClose(u[2], v[2]) /\ FClose(u[3], v[3])
VFinite(v) == IsFinite(v[1]) /\ IsFinite(v[2]) /\ IsFinite(v[3])

SamePlace(a, b) == a.x = b.x /\ a.y = b.y /\ a.z = b.z

\* The total mass of the 8 children of the tree node at p.
ChildrenMass(t, p) ==
  LET m == [k \in 1..8 |-> t[Append(p, k)].total_mass]
  IN FAdd(FAdd(FAdd(FAdd(FAdd(FAdd(FAdd(m[1], m[2]), m[3]), m[4]), m[5]), m[6]), m[7]), m[8])

RECURSIVE SumMass(_, _)
SumMass(ns, i) == IF i = 0 THEN Zero ELSE FAdd(SumMass(ns, i - 1), ns[i].mass)

\* C1: after the tree build of a tick, the total masses of the 8 children
\* of every subdivided tree node add up to the node's own total mass: a
\* subdivision hands every body the node held to a child.
C1_SubdivisionKeepsMass ==
  Ticked =>
    \A p \in DOMAIN tree :
      tree[p].children => ChildrenMass(tree, p) = tree[p].total_mass

\* C2: after the tree build of a tick no node lies outside the root volume
\* and the root's total mass is the sum of all node masses.
C2_RootMass ==
  Ticked =>
    /\ \A i \in 1..Len(pre) : Contains(tree[<< >>].bounds, pre[i].x, pre[i].y, pre[i].z)
    /\ tree[<< >>].total_mass = SumMass(pre, Len(pre))

C2_Witness ==
  /\ Ticked
  /\ Len(pre) = 3
  /\ tree[<< >>].children
  /\ tree[<< >>].total_mass = FromInt(3)
  /\ \E i \in 1..3 : pre[i].vx # Zero

\* The softened inverse-square term of body b on the query node a.
PairTerm(a, b) ==
  LET dx      == FSub(b.x, a.x)
      dy      == FSub(b.y, a.y)
      dz      == FSub(b.z, a.z)
      dist_sq == FAdd(FAdd(FAdd(FMul(dx, dx), FMul(dy, dy)), FMul(dz, dz)), FromInt(1))
      dist    == FSqrt(dist_sq)
      force   == FDiv(FMul(a.mass, b.mass), dist_sq)
  IN << FMul(FDiv(dx, dist), force), FMul(FDiv(dy, dist), force), FMul(FDiv(dz, dist), force) >>

RECURSIVE DirectSum(_, _, _)
DirectSum(ns, i, j) ==
  IF j = 0 THEN VZero
  ELSE IF j = i THEN DirectSum(ns, i, j - 1)
  ELSE VAdd(DirectSum(ns, i, j - 1), PairTerm(ns[i], ns[j]))

\* C3: with theta = 0 the octree query of every node returns the direct
\* pairwise sum over all other nodes (up to rounding).
C3_ThetaZeroIsDirectSum ==
  (Ticked /\ theta = Zero) =>
    \A i \in 1..Len(pre) : VClose(repulse[i], DirectSum(pre, i, Len(pre)))

\* The two nodes of the scenario: A at the origin, B at (10, 0, 0), mass 1, at rest.
ScenarioNodes == FromValue(JsNodes(2, "pairs", 0, 0), NodeFields).val

\* C4: in the two-node scenario (repulsion 1000, theta 0.5, damping 1, no
\* edges) tick(1) pushes A along -x and B along +x with the same magnitude,
\* about 1000/101, and moves each node by its own velocity.
C4_TwoNodesPushedApart ==
  (/\ Ticked
   /\ pre = ScenarioNodes
   /\ Len(edges) = 0
   /\ repulsion_strength = FromInt(1000)
   /\ theta = Lit(5, 10)
   /\ damping = FromInt(1)
   /\ lastDt = FromInt(1))
  =>
    /\ FLt(forces[1][1], Zero)
    /\ forces[2][1] = FNeg(forces[1][1])
    /\ FClose(forces[2][1], Lit(1000, 101))
    /\ FLt(nodes[1].vx, Zero)
    /\ nodes[2].vx = FNeg(nodes[1].vx)
    /\ nodes[1].x = FAdd(pre[1].x, nodes[1].vx)
    /\ nodes[2].x = FAdd(pre[2].x, nodes[2].vx)

\* C5: a tick over nodes some of which have mass 0 leaves every center of
\* mass of the octree, every force, velocity and position finite.
C5_ZeroMassStaysFinite ==
  Ticked =>
    /\ \A p \in DOMAIN tree : VFinite(tree[p].center_of_mass)
    /\ \A i \in 1..Len(pre) :
         /\ VFinite(forces[i])
         /\ VFinite(<<nodes[i].vx, nodes[i].vy, nodes[i].vz>>)
         /\ VFinite(<<nodes[i].x, nodes[i].y, nodes[i].z>>)

\* C6: a setNodes or setEdges call that returns an error leaves the node
\* sequence, the id-to-index map, the edge sequence and the parameters as
\* they were.
C6_FailedSetChangesNothing ==
  [][result' = "err" => UNCHANGED engine]_vars

C6_Witness ==
  /\ lastOp = "setNodes"
  /\ result = "err"
  /\ Len(nodes) > 0
  /\ DOMAIN node_map # {}
  /\ Len(edges) > 0

Resolves(edge) == edge.source \in DOMAIN node_map /\ edge.target \in DOMAIN node_map
Dangling(edge) == ~Resolves(edge)

\* C7: a tick returns normally whatever the edges name, and its force
\* accumulators and resulting nodes are those of the same tick over the
\* edges with the dangling ones removed (the repulsion pass reads no edge).
C7_DanglingEdgesInert ==
  lastOp = "tick" =>
    /\ result = "ok"
    /\ IsTree(tree) =>
         LET kept == SelectSeq(edges, Resolves)
             f0   == [i \in 1..Len(pre) |-> VScale(repulse[i], repulsion_strength)]
             fs   == Attraction(f0, pre, kept, node_map, attraction_strength, 1)
         IN /\ forces = fs
            /\ nodes = [i \in 1..Len(pre) |-> Integrate(pre[i], fs[i], damping, lastDt)]

C7_Witness ==
  /\ Ticked
  /\ Len(pre) >= 2
  /\ \E k \in 1..Len(edges) : Dangling(edges[k])
  /\ lastDt # Zero
  /\ \E i \in 1..Len(pre) : nodes[i].x # pre[i].x

\* C8: every tick returns: the octree build never exhausts the recursion
\* depth, each insert deepens the octree by at most one level, and a tree
\* node owns either no child or all 8 (so the force query bottoms out).
C8_TickReturns ==
  lastOp = "tick" =>
    /\ result = "ok"
    /\ Len(pre) > 0 =>
         /\ IsTree(tree)
         /\ depths[1] = 0
         /\ \A i \in 1..Len(pre) : depths[i + 1] <= depths[i] + 1
         /\ \A p \in DOMAIN tree :
              /\ Len(p) < Len(pre)
              /\ \A k \in 1..8 : tree[p].children <=> Append(p, k) \in DOMAIN tree

C8_Witness ==
  /\ Ticked
  /\ Len(pre) = 3
  /\ SamePlace(pre[2], pre[3])
  /\ Depth(tree) = 2

\* C9: tick(0) moves no node and multiplies every velocity by the damping
\* factor, whatever the forces are.
C9_TickZeroOnlyDamps ==
  (lastOp = "tick" /\ lastDt = Zero) =>
    /\ Len(nodes) = Len(pre)
    /\ \A i \in 1..Len(pre) :
         /\ nodes[i].x = pre[i].x /\ nodes[i].y = pre[i].y /\ nodes[i].z = pre[i].z
         /\ nodes[i].vx = FMul(pre[i].vx, damping)
         /\ nodes[i].vy = FMul(pre[i].vy, damping)
         /\ nodes[i].vz = FMul(pre[i].vz, damping)
         /\ nodes[i].id = pre[i].id /\ nodes[i].mass = pre[i].mass

C9_Witness ==
  /\ Ticked
  /\ lastDt = Zero
  /\ damping # FromInt(1)
  /\ \E i \in 1..Len(pre) :
       /\ pre[i].vx # Zero
       /\ forces[i][1] # Zero
       /\ nodes[i].vx # pre[i].vx

\* C10: the keys of the id-to-index map are the ids of the node sequence,
\* and every mapped index lies in the node sequence at a node with that id.
C10_MapMatchesNodes ==
  /\ DOMAIN node_map = {nodes[i].id : i \in 1..Len(nodes)}
  /\ \A id \in DOMAIN node_map :
       /\ node_map[id] \in 1..Len(nodes)
       /\ nodes[node_map[id]].id = id

C10_Witness ==
  /\ lastOp = "tick"
  /\ Len(nodes) = 1
  /\ \E k \in 1..Len(edges) : Resolves(edges[k]) = FALSE /\ edges[k].source \in DOMAIN node_map
  /\ Cardinality(DOMAIN node_map) = 1

=============================================================================
